---- MODULE Spec2Model ----
(***************************************************************************)
(* Model of src/main.py: class-pairwise distance tables (calc_dist), the   *)
(* four feature-selection strategies applied to diffusion-map coordinates, *)
(* and the experiment pipeline (main).                                     *)
(*                                                                         *)
(* Python lists and numpy arrays are sequences; the feature indices they   *)
(* hold are 0-based as in the source, so element i of a Python list xs is  *)
(* xs[i + 1] here.  A pandas frame is a record of its column names, its    *)
(* row index and one value sequence per column.                            *)
(***************************************************************************)
EXTENDS Integers, Sequences, FiniteSets, TLC

(***************************************************************************)
(* Bounds of the model.                                                    *)
(***************************************************************************)
MaxPoints == 3        \* points handed to a selection strategy called directly
MaxMainFeatures == 2  \* feature columns of the dataset main reads
MaxMainRows == 6      \* rows of the dataset main reads
MaxFeatures == 2      \* feature columns of a frame handed to calc_dist
MaxRows == 3          \* rows of a frame handed to calc_dist
MaxShift == 1         \* first row label of the frame's index (0: RangeIndex)
MaxWeight == 2        \* weights of the distance library's stand-in
DistModulus == 3      \* distances returned by the stand-in are 0..DistModulus-1

\* dim=2 in main's call of diffusion_mapping; the strategies read c[0], c[1].
Dim == 2

\* Values a coordinate of the embedding takes: two of them, one negative, so
\* that points tie on an axis and in norm and the sign of a coordinate counts.
CoordValues == {-1, 0}

\* config['features_percentage'] in quarters: 0.25, 0.5, 0.75, 1.0, each an
\* exact binary fraction, so len(features) * prc is exact in floating point.
Percentages == 1..4

\* StratifiedKFold(n_splits=5) in predict: the classifier needs a class of at
\* least that many rows.
n_splits == 5

\* config['dist_functions'].
dist_functions == <<"wasserstein", "hellinger", "jm">>

FeatureNames == <<"f1", "f2", "f3", "f4">>
Labels == {"a", "b", "c"}
LabelCode == [l \in Labels |-> CASE l = "a" -> 1 [] l = "b" -> 2 [] OTHER -> 3]

\* The names execute_distance_func accepts, and the names a caller may pass.
SupportedMetrics == {"wasserstein", "bhattacharyya", "jm", "hellinger"}
MetricNames == SupportedMetrics \cup {"euclidean"}

VARIABLES
    \* ---- calc_dist
    cd_pc,            \* "call" | "loop" | "returned" | "raised" | "idle"
    dist_func_name,   \* argument dist_func_name
    X_in, classes_in, \* the caller's frame and label series as they were at the call
    X_tr, classes,    \* the same two objects, as calc_dist leaves them
    features,         \* local: X_tr.columns taken at line 64
    distances,        \* local: one class x class matrix per feature done so far
    calls,            \* invocations of execute_distance_func, in order
    df_dists,         \* returned flattened table (rows of values)
    dist_dict,        \* returned per-feature matrices; key feature_{i} is position i
    weights           \* the distance library's behaviour in this run

cd_vars == <<cd_pc, dist_func_name, X_in, classes_in, X_tr, classes, features,
             distances, calls, df_dists, dist_dict, weights>>

VARIABLES
    \* ---- the selection strategies and main
    pc,               \* position in main; "ready" and "returned_<strategy>"
                      \* before and after a direct call of a strategy
    nfeat,            \* N: number of feature columns (points of the embedding)
    prc,              \* config['features_percentage'], in quarters
    k,                \* requested number of features
    dist_i,           \* position in config['dist_functions'] (0-based)
    coordinates,      \* d x N embedding: coordinates[axis][feature]
    ranking,          \* per-axis rankings returned with the embedding
    selected,         \* the feature indices the last strategy returned
    labels,           \* KMeans(...).labels_
    features_rank,    \* argsort of the first axis (return_best_features_by_kmeans)
    medoid_indices,   \* rows KMedoids chose as cluster centers
    stored,           \* metric columns written by store_results
    ran,              \* the selection strategies main has executed so far
    error,            \* "none", or the exception that ended main
    data              \* the dataset main read: feature frame X and label series y

sel_vars == <<pc, nfeat, prc, k, dist_i, coordinates, ranking, selected, labels,
              features_rank, medoid_indices, stored, ran, error>>

vars == <<cd_vars, sel_vars, data>>

(***************************************************************************)
(* Helpers on sequences.                                                   *)
(***************************************************************************)
Range(s) == {s[i] : i \in 1..Len(s)}

SeqsUpTo(S, n) == UNION {[1..m -> S] : m \in 0..n}

\* utils.general.flatten: the rows of a list of lists concatenated in order.
RECURSIVE flatten(_)
flatten(rows) ==
    IF rows = << >> THEN << >> ELSE Head(rows) \o flatten(Tail(rows))

\* pandas Series.unique(): the distinct values in order of first appearance.
RECURSIVE unique(_)
unique(values) ==
    IF values = << >> THEN << >>
    ELSE LET rest == unique(SubSeq(values, 1, Len(values) - 1))
             last == values[Len(values)]
         IN  IF last \in Range(rest) THEN rest ELSE Append(rest, last)

(***************************************************************************)
(* Frames and series.                                                      *)
(***************************************************************************)
\* Row labels first, first + 1, ... of n rows.
RowIndex(first, n) == [r \in 1..n |-> first + r - 1]

\* The value of feature column j in row r of the input data.
CellValue(j, r) == (j + r) % 2

Frame(ncols, first, nrows) ==
    [columns |-> SubSeq(FeatureNames, 1, ncols),
     index   |-> RowIndex(first, nrows),
     data    |-> [j \in 1..ncols |-> [r \in 1..nrows |-> CellValue(j, r)]]]

Series(first, values) ==
    [index |-> RowIndex(first, Len(values)), values |-> values]

\* classes.reset_index(drop=True, inplace=True): the index becomes 0..n-1.
reset_index(s) == [s EXCEPT !.index = RowIndex(0, Len(s.values))]

\* The value a series holds at row label i, NaN when it has no such label.
AtLabel(s, i) ==
    IF \E r \in 1..Len(s.index) : s.index[r] = i
    THEN s.values[CHOOSE r \in 1..Len(s.index) : s.index[r] = i]
    ELSE "NaN"

\* df[name] = s: the column is aligned on the frame's row index; an existing
\* column of that name is overwritten, a new one is appended.
set_column(df, name, s) ==
    LET col == [r \in 1..Len(df.index) |-> AtLabel(s, df.index[r])]
    IN  IF \E j \in 1..Len(df.columns) : df.columns[j] = name
        THEN [df EXCEPT !.data[CHOOSE j \in 1..Len(df.columns) :
                                   df.columns[j] = name] = col]
        ELSE [df EXCEPT !.columns = Append(df.columns, name),
                        !.data = Append(df.data, col)]

(***************************************************************************)
(* The distance library (utils.distances) and its dispatcher.              *)
(***************************************************************************)
FeatureCode(name) == CHOOSE j \in 1..Len(FeatureNames) : FeatureNames[j] = name

\* What the named distance function returns for two class labels of a
\* feature.  The library returns a non-negative number fixed by its inputs;
\* here it is a weighted code of the labels, symmetric exactly when the two
\* weights agree, and in general not 0 for a label paired with itself.
distance_lib(w, feature, label1, label2) ==
    (w[1] * LabelCode[label1] + w[2] * LabelCode[label2] + FeatureCode(feature))
        % DistModulus

\* execute_distance_func: the assert on the name, then the dispatch.
execute_distance_func(w, function_name, feature, label1, label2) ==
    IF function_name \in SupportedMetrics
    THEN [raised |-> FALSE, value |-> distance_lib(w, feature, label1, label2)]
    ELSE [raised |-> TRUE, value |-> 0]

(***************************************************************************)
(* calc_dist.                                                              *)
(***************************************************************************)
\* class_cell without its test on the two labels: the dispatcher is called for
\* every ordered pair, a label paired with itself included.
class_cell_unguarded(w, fn, feature, c1, c2) ==
    LET r == execute_distance_func(w, fn, feature, c1, c2)
    IN  [called |-> TRUE, raised |-> r.raised, value |-> r.value]

\* One entry of a class row (lines 73-74): the dispatcher is called for two
\* different labels, the literal 0 is taken otherwise.
class_cell(w, fn, feature, c1, c2) ==
    IF c1 # c2
    THEN LET r == execute_distance_func(w, fn, feature, c1, c2)
         IN  [called |-> TRUE, raised |-> r.raised, value |-> r.value]
    ELSE [called |-> FALSE, raised |-> FALSE, value |-> 0]

\* The cells of one feature's matrix in evaluation order (lines 70-77): for
\* each label of classes.unique(), one row over classes.unique().
class_cells(w, fn, feature, uniq) ==
    [a \in 1..Len(uniq) |->
        [b \in 1..Len(uniq) |-> class_cell(w, fn, feature, uniq[a], uniq[b])]]

\* The calls a matrix evaluation makes, in order, up to and including the
\* first one that raises.
RECURSIVE calls_until_raise(_)
calls_until_raise(cs) ==
    IF cs = << >> THEN << >>
    ELSE IF Head(cs).raised THEN <<Head(cs)>>
         ELSE <<Head(cs)>> \o calls_until_raise(Tail(cs))

\* What the evaluation of one feature's matrix logs: feature, labels of each
\* invocation of execute_distance_func.
feature_calls(w, fn, feature, uniq) ==
    LET cells == class_cells(w, fn, feature, uniq)
        flat  == flatten([a \in 1..Len(uniq) |->
                    [b \in 1..Len(uniq) |->
                        [called |-> cells[a][b].called,
                         raised |-> cells[a][b].raised,
                         feature |-> feature, label1 |-> uniq[a],
                         label2 |-> uniq[b]]]])
        made  == calls_until_raise(SelectSeq(flat, LAMBDA c : c.called))
    IN  [i \in 1..Len(made) |->
            [feature |-> made[i].feature, label1 |-> made[i].label1,
             label2 |-> made[i].label2]]

feature_raises(w, fn, feature, uniq) ==
    \E a, b \in 1..Len(uniq) : class_cells(w, fn, feature, uniq)[a][b].raised

class_dist(w, fn, feature, uniq) ==
    LET cells == class_cells(w, fn, feature, uniq)
    IN  [a \in 1..Len(uniq) |-> [b \in 1..Len(uniq) |-> cells[a][b].value]]

\* two_d_mat with a range that stops one matrix short.
two_d_mat_short(dists) == [i \in 1..(Len(dists) - 1) |-> flatten(dists[i])]

\* Line 80: one flattened row per matrix.
two_d_mat(dists) == [i \in 1..Len(dists) |-> flatten(dists[i])]

\* Line 82: {f'feature_{idx + 1}': DataFrame(mat)}; the key is idx + 1.
make_dist_dict(dists) == [i \in 1..Len(dists) |-> dists[i]]

\* The loop of lines 69-78 run to its end: the matrices of all features and
\* the invocations made, or the invocations up to the assert that failed.
RECURSIVE calc_dist_loop(_, _, _, _, _, _)
calc_dist_loop(w, fn, feats, uniq, dists, cs) ==
    IF Len(dists) = Len(feats)
    THEN [raised |-> FALSE, distances |-> dists, calls |-> cs]
    ELSE LET feature == feats[Len(dists) + 1]
             made    == cs \o feature_calls(w, fn, feature, uniq)
         IN  IF feature_raises(w, fn, feature, uniq)
             THEN [raised |-> TRUE, distances |-> dists, calls |-> made]
             ELSE calc_dist_loop(w, fn, feats, uniq,
                      Append(dists, class_dist(w, fn, feature, uniq)), made)

\* calc_dist as one call (lines 64-83): what it leaves in its two arguments,
\* its locals, the invocations it made and what it returns.
calc_dist(w, fn, X, y) ==
    LET cls == reset_index(y)
        run == calc_dist_loop(w, fn, X.columns, unique(cls.values), << >>, << >>)
    IN  [raised    |-> run.raised,
         X_tr      |-> set_column(X, "label", cls),
         classes   |-> cls,
         features  |-> X.columns,
         distances |-> run.distances,
         calls     |-> run.calls,
         df_dists  |-> IF run.raised THEN << >> ELSE two_d_mat(run.distances),
         dist_dict |-> IF run.raised THEN << >>
                       ELSE make_dist_dict(run.distances)]

\* calc_dist is called with any metric name, frame and label series in
\* bounds; the frame and the series hold the same rows, as X and y of main
\* do.  Nothing of the selection strategies or of main is running.
CalcDistInit ==
    /\ cd_pc = "call"
    /\ dist_func_name \in MetricNames
    /\ weights \in (0..MaxWeight) \X (0..MaxWeight)
    /\ \E ncols \in 0..MaxFeatures, first \in 0..MaxShift,
          values \in SeqsUpTo(Labels, MaxRows) :
          /\ X_in = Frame(ncols, first, Len(values))
          /\ classes_in = Series(first, values)
    /\ X_tr = X_in
    /\ classes = classes_in
    /\ features = << >>
    /\ distances = << >>
    /\ calls = << >>
    /\ df_dists = << >>
    /\ dist_dict = << >>
    /\ pc = "idle"
    /\ nfeat = 0
    /\ prc = 0
    /\ k = 0
    /\ dist_i = 0
    /\ coordinates = << >>
    /\ ranking = << >>
    /\ selected = << >>
    /\ labels = << >>
    /\ features_rank = << >>
    /\ medoid_indices = {}
    /\ stored = {}
    /\ ran = {}
    /\ error = "none"
    /\ data = [X |-> Frame(0, 0, 0), y |-> Series(0, << >>)]

\* Lines 64-68.
CalcDistEnter ==
    /\ cd_pc = "call"
    /\ features' = X_tr.columns
    /\ classes' = reset_index(classes)
    /\ X_tr' = set_column(X_tr, "label", reset_index(classes))
    /\ distances' = << >>
    /\ cd_pc' = "loop"
    /\ UNCHANGED <<dist_func_name, X_in, classes_in, calls, df_dists, dist_dict,
                   weights>>
    /\ UNCHANGED <<sel_vars, data>>

\* Lines 69-78, one feature: its matrix is appended, or the assert of
\* execute_distance_func ends the call.
CalcDistFeature ==
    /\ cd_pc = "loop"
    /\ Len(distances) < Len(features)
    /\ LET feature == features[Len(distances) + 1]
           uniq    == unique(classes.values)
       IN  /\ calls' = calls \o
                  feature_calls(weights, dist_func_name, feature, uniq)
           /\ IF feature_raises(weights, dist_func_name, feature, uniq)
              THEN /\ cd_pc' = "raised"
                   /\ UNCHANGED distances
              ELSE /\ cd_pc' = "loop"
                   /\ distances' = Append(distances,
                          class_dist(weights, dist_func_name, feature, uniq))
    /\ UNCHANGED <<dist_func_name, X_in, classes_in, X_tr, classes, features,
                   df_dists, dist_dict, weights>>
    /\ UNCHANGED <<sel_vars, data>>

\* Lines 80-83.
CalcDistReturn ==
    /\ cd_pc = "loop"
    /\ Len(distances) = Len(features)
    /\ df_dists' = two_d_mat(distances)
    /\ dist_dict' = make_dist_dict(distances)
    /\ cd_pc' = "returned"
    /\ UNCHANGED <<dist_func_name, X_in, classes_in, X_tr, classes, features,
                   distances, calls, weights>>
    /\ UNCHANGED <<sel_vars, data>>

CalcDistNext == CalcDistEnter \/ CalcDistFeature \/ CalcDistReturn

SpecCalcDist == CalcDistInit /\ [][CalcDistNext]_vars


(***************************************************************************)
(* numpy helpers.                                                          *)
(***************************************************************************)
\* np.argsort(xs) with the default kind, which is not stable: every order of
\* the 0-based positions of xs in which the values do not decrease.
RECURSIVE argsorts_from(_, _)
argsorts_from(xs, rem) ==
    IF rem = {} THEN {<< >>}
    ELSE UNION {{<<i - 1>> \o t : t \in argsorts_from(xs, rem \ {i})} :
                   i \in {j \in rem : \A m \in rem : xs[j] <= xs[m]}}

argsorts(xs) == argsorts_from(xs, 1..Len(xs))

\* xs[-n:] for n >= 0: the last n elements, and all of xs when n is 0 (the
\* slice is then xs[0:]) or n exceeds the length.
take_last(xs, n) ==
    IF n = 0 \/ n >= Len(xs) THEN xs ELSE SubSeq(xs, Len(xs) - n + 1, Len(xs))

\* math.sqrt, to one decimal digit: the integer part of 10 * sqrt(x).
sqrt_tenths(x) ==
    CHOOSE r \in 0..(10 * (x + 1)) :
        r * r <= 100 * x /\ (r + 1) * (r + 1) > 100 * x

\* The ascending sequence of the elements of a set of integers.
RECURSIVE ascending(_)
ascending(S) ==
    IF S = {} THEN << >>
    ELSE LET m == CHOOSE x \in S : \A y \in S : x <= y
         IN  <<m>> \o ascending(S \ {m})

NumPoints(coords) == Len(coords[1])

\* Row i (0-based) of coordinates.T: the point of feature i.
point(coords, i) == [a \in 1..Len(coords) |-> coords[a][i + 1]]

(***************************************************************************)
(* The selection strategies.                                               *)
(***************************************************************************)
\* Lines 25-27: the distance of every point from the origin.
center_dists(coords) ==
    [i \in 1..NumPoints(coords) |->
        sqrt_tenths(point(coords, i - 1)[1] * point(coords, i - 1)[1]
                    + point(coords, i - 1)[2] * point(coords, i - 1)[2])]

\* return_farest_features_from_center: the results it can return, one per
\* order argsort can produce.
return_farest_features_from_center(coords, kk) ==
    {take_last(ranking_idx, kk) : ranking_idx \in argsorts(center_dists(coords))}

\* The loop of return_best_features_by_kmeans with the test made on the
\* features chosen so far instead of on the clusters chosen so far.
RECURSIVE best_features_walk_on_features(_, _, _)
best_features_walk_on_features(rank, lab, best) ==
    IF rank = << >> THEN best
    ELSE LET idx == Head(rank)
         IN  IF lab[idx + 1] \notin Range(best)
             THEN best_features_walk_on_features(Tail(rank), lab,
                                                 Append(best, idx))
             ELSE best_features_walk_on_features(Tail(rank), lab, best)

return_best_features_on_features(lab, rank) ==
    best_features_walk_on_features(rank, lab, << >>)

\* Lines 90-95: walk features_rank and keep the first feature of each label.
RECURSIVE best_features_walk(_, _, _, _)
best_features_walk(rank, lab, best, selected_cetroids) ==
    IF rank = << >> THEN best
    ELSE LET idx == Head(rank)
         IN  IF lab[idx + 1] \notin Range(selected_cetroids)
             THEN best_features_walk(Tail(rank), lab, Append(best, idx),
                                     Append(selected_cetroids, lab[idx + 1]))
             ELSE best_features_walk(Tail(rank), lab, best, selected_cetroids)

\* return_best_features_by_kmeans, given what KMeans and argsort returned.
return_best_features_by_kmeans(lab, rank) ==
    best_features_walk(rank, lab, << >>, << >>)

\* KMeans(n_clusters=k).fit(...).labels_: one label in 0..k-1 per point.
kmeans_labels(n, kk) == [1..n -> 0..(kk - 1)]

\* KMedoids(n_clusters=k).fit(...): k rows chosen as the cluster centers.
kmedoids_medoids(n, kk) == {m \in SUBSET (0..(n - 1)) : Cardinality(m) = kk}

\* Line 108, `v in centers` on numpy arrays: (centers == v).any(), true as
\* soon as v agrees with some center in one coordinate.
in_centers(v, centers) ==
    \E c \in centers : \E a \in 1..Len(v) : v[a] = c[a]

\* k_medoids_features, given the rows KMedoids chose.
k_medoids_features(coords, medoids) ==
    LET centers == {point(coords, m) : m \in medoids}
    IN  ascending({i \in 0..(NumPoints(coords) - 1) :
                      in_centers(point(coords, i), centers)})

(***************************************************************************)
(* The strategies called directly on any coordinates and k in bounds.      *)
(***************************************************************************)
SelectInit ==
    /\ pc = "ready"
    /\ nfeat \in 1..MaxPoints
    /\ k \in 1..nfeat
    /\ coordinates \in [1..Dim -> [1..nfeat -> CoordValues]]
    /\ prc = 0
    /\ dist_i = 0
    /\ ranking = << >>
    /\ selected = << >>
    /\ labels = << >>
    /\ features_rank = << >>
    /\ medoid_indices = {}
    /\ stored = {}
    /\ ran = {}
    /\ error = "none"
    /\ data = [X |-> Frame(0, 0, 0), y |-> Series(0, << >>)]
    /\ cd_pc = "idle"
    /\ dist_func_name = "wasserstein"
    /\ weights = <<0, 0>>
    /\ X_in = Frame(0, 0, 0)
    /\ classes_in = Series(0, << >>)
    /\ X_tr = X_in
    /\ classes = classes_in
    /\ features = << >>
    /\ distances = << >>
    /\ calls = << >>
    /\ df_dists = << >>
    /\ dist_dict = << >>

CallFarthest ==
    /\ pc = "ready"
    /\ selected' \in return_farest_features_from_center(coordinates, k)
    /\ pc' = "returned_farthest"
    /\ UNCHANGED <<nfeat, prc, k, dist_i, coordinates, ranking, labels,
                   features_rank, medoid_indices, stored, ran, error>>
    /\ UNCHANGED <<cd_vars, data>>

CallKMeans ==
    /\ pc = "ready"
    /\ features_rank' \in argsorts(coordinates[1])
    /\ labels' \in kmeans_labels(nfeat, k)
    /\ selected' = return_best_features_by_kmeans(labels', features_rank')
    /\ pc' = "returned_kmeans"
    /\ UNCHANGED <<nfeat, prc, k, dist_i, coordinates, ranking, medoid_indices,
                   stored, ran, error>>
    /\ UNCHANGED <<cd_vars, data>>

CallKMedoids ==
    /\ pc = "ready"
    /\ medoid_indices' \in kmedoids_medoids(nfeat, k)
    /\ selected' = k_medoids_features(coordinates, medoid_indices')
    /\ pc' = "returned_kmedoids"
    /\ UNCHANGED <<nfeat, prc, k, dist_i, coordinates, ranking, labels,
                   features_rank, stored, ran, error>>
    /\ UNCHANGED <<cd_vars, data>>

SelectNext == CallFarthest \/ CallKMeans \/ CallKMedoids

SpecSelect == SelectInit /\ [][SelectNext]_vars

(***************************************************************************)
(* main.                                                                   *)
(***************************************************************************)
\* min_max_scaler(X, features): a new frame, each column scaled to [0, 1] by
\* (v - min) / (max - min), a constant column to 0.
min_max_scaler(X) ==
    LET lo(col) == CHOOSE v \in Range(col) : \A u \in Range(col) : v <= u
        hi(col) == CHOOSE v \in Range(col) : \A u \in Range(col) : v >= u
        scale(col) ==
            [r \in 1..Len(col) |->
                IF hi(col) = lo(col) THEN 0
                ELSE (col[r] - lo(col)) \div (hi(col) - lo(col))]
    IN  [X EXCEPT !.data = [j \in 1..Len(X.data) |-> scale(X.data[j])]]

\* calc_k: int(len(features) * prc), prc given in quarters.
calc_k(nfeatures, quarters) == (nfeatures * quarters) \div 4

\* What diffusion_mapping returns for n features: coordinates of Dim axes
\* and, per axis, the feature indices ordered by coordinate value ascending.
diffusion_mapping(n) ==
    UNION {{[coordinates |-> c, ranking |-> <<r1, r2>>] :
               r1 \in argsorts(c[1]), r2 \in argsorts(c[2])} :
           c \in [1..Dim -> [1..n -> CoordValues]]}

\* Lines 208-211: the last k positions of the argsort of the flattened
\* ranking; one result per order argsort can produce.
rank_by_axis(rk, kk) ==
    {take_last(ranking_idx, kk) : ranking_idx \in argsorts(flatten(rk))}

\* data[features].sample(n=k, axis='columns'): any k of the n columns.
sample_columns(n, kk) == {c \in SUBSET (0..(n - 1)) : Cardinality(c) = kk}

\* X.iloc[:, idx] raises IndexError when a position is not a column of X.
iloc_in_bounds(idx, ncols) == \A i \in Range(idx) : 0 <= i /\ i < ncols

\* The dataset main reads has a RangeIndex, one to MaxMainFeatures feature
\* columns and a label column in which some class has n_splits rows or more.
MainInit ==
    /\ pc = "start"
    /\ \E ncols \in 1..MaxMainFeatures,
          values \in UNION {[1..n -> Labels] : n \in n_splits..MaxMainRows} :
          /\ \E l \in Labels :
                 Cardinality({r \in 1..Len(values) : values[r] = l}) >= n_splits
          /\ data = [X |-> Frame(ncols, 0, Len(values)),
                     y |-> Series(0, values)]
          /\ nfeat = ncols
    /\ prc \in Percentages
    /\ weights \in (0..MaxWeight) \X (0..MaxWeight)
    /\ k = 0
    /\ dist_i = 0
    /\ coordinates = << >>
    /\ ranking = << >>
    /\ selected = << >>
    /\ labels = << >>
    /\ features_rank = << >>
    /\ medoid_indices = {}
    /\ stored = {}
    /\ ran = {}
    /\ error = "none"
    /\ cd_pc = "idle"
    /\ dist_func_name = "wasserstein"
    /\ X_in = Frame(0, 0, 0)
    /\ classes_in = Series(0, << >>)
    /\ X_tr = X_in
    /\ classes = classes_in
    /\ features = << >>
    /\ distances = << >>
    /\ calls = << >>
    /\ df_dists = << >>
    /\ dist_dict = << >>

\* Lines 171-173.
MainCalcK ==
    /\ pc = "start"
    /\ k' = calc_k(nfeat, prc)
    /\ pc' = "all_features"
    /\ UNCHANGED <<nfeat, prc, dist_i, coordinates, ranking, selected, labels,
                   features_rank, medoid_indices, stored, ran, error>>
    /\ UNCHANGED <<cd_vars, data>>

\* Lines 180-182: the baseline on all features is scored and stored.
MainAllFeatures ==
    /\ pc = "all_features"
    /\ stored' = stored \cup {<<"all_features">>}
    /\ pc' = "random"
    /\ UNCHANGED <<nfeat, prc, k, dist_i, coordinates, ranking, selected, labels,
                   features_rank, medoid_indices, ran, error>>
    /\ UNCHANGED <<cd_vars, data>>

\* Lines 189-194: k columns sampled at random are scored and stored; the
\* classifier rejects a frame of no columns with a ValueError.
MainRandom ==
    /\ pc = "random"
    /\ \E cols \in sample_columns(nfeat, k) : selected' = ascending(cols)
    /\ IF k = 0
       THEN /\ error' = "ValueError"
            /\ pc' = "crashed"
            /\ UNCHANGED stored
       ELSE /\ stored' = stored \cup {<<"random_features">>}
            /\ pc' = "embed"
            /\ UNCHANGED error
    /\ UNCHANGED <<nfeat, prc, k, dist_i, coordinates, ranking, labels,
                   features_rank, medoid_indices, ran>>
    /\ UNCHANGED <<cd_vars, data>>

\* Lines 201-206: X and y are copied from the dataset, X is scaled, calc_dist
\* builds the distance table of the next metric on the scaled frame and the
\* copy of y (and leaves its marks in both), and the table is embedded.
MainEmbed ==
    /\ pc = "embed"
    /\ LET X_norm == min_max_scaler(data.X)
           y      == data.y
           r      == calc_dist(weights, dist_functions[dist_i + 1], X_norm, y)
       IN  /\ dist_func_name' = dist_functions[dist_i + 1]
           /\ X_in' = X_norm
           /\ classes_in' = y
           /\ X_tr' = r.X_tr
           /\ classes' = r.classes
           /\ features' = r.features
           /\ distances' = r.distances
           /\ calls' = r.calls
           /\ df_dists' = r.df_dists
           /\ dist_dict' = r.dist_dict
           /\ IF r.raised
              THEN /\ cd_pc' = "raised"
                   /\ error' = "AssertionError"
                   /\ pc' = "crashed"
                   /\ UNCHANGED <<coordinates, ranking>>
              ELSE /\ cd_pc' = "returned"
                   /\ \E e \in diffusion_mapping(Len(r.df_dists)) :
                          /\ coordinates' = e.coordinates
                          /\ ranking' = e.ranking
                   /\ pc' = "rank"
                   /\ UNCHANGED error
    /\ UNCHANGED <<nfeat, prc, k, dist_i, selected, labels, features_rank,
                   medoid_indices, stored, ran, weights, data>>

\* Lines 208-212: rank-by-axis selection, scored and stored.
MainRank ==
    /\ pc = "rank"
    /\ selected' \in rank_by_axis(ranking, k)
    /\ ran' = ran \cup {"rank"}
    /\ IF iloc_in_bounds(selected', nfeat)
       THEN /\ stored' = stored \cup {<<dist_functions[dist_i + 1], "rank">>}
            /\ pc' = "kmeans"
            /\ UNCHANGED error
       ELSE /\ error' = "IndexError"
            /\ pc' = "crashed"
            /\ UNCHANGED stored
    /\ UNCHANGED <<nfeat, prc, k, dist_i, coordinates, ranking, labels,
                   features_rank, medoid_indices>>
    /\ UNCHANGED <<cd_vars, data>>

\* Lines 214-217.
MainKMeans ==
    /\ pc = "kmeans"
    /\ features_rank' \in argsorts(coordinates[1])
    /\ labels' \in kmeans_labels(nfeat, k)
    /\ selected' = return_best_features_by_kmeans(labels', features_rank')
    /\ ran' = ran \cup {"kmeans"}
    /\ stored' = stored \cup {<<dist_functions[dist_i + 1], "kmeans">>}
    /\ pc' = "kmedoids"
    /\ UNCHANGED <<nfeat, prc, k, dist_i, coordinates, ranking, medoid_indices,
                   error>>
    /\ UNCHANGED <<cd_vars, data>>

\* Lines 219-222.
MainKMedoids ==
    /\ pc = "kmedoids"
    /\ medoid_indices' \in kmedoids_medoids(nfeat, k)
    /\ selected' = k_medoids_features(coordinates, medoid_indices')
    /\ ran' = ran \cup {"kmedoids"}
    /\ stored' = stored \cup {<<dist_functions[dist_i + 1], "kmediods">>}
    /\ pc' = "farthest"
    /\ UNCHANGED <<nfeat, prc, k, dist_i, coordinates, ranking, labels,
                   features_rank, error>>
    /\ UNCHANGED <<cd_vars, data>>

\* Lines 224-227.
MainFarthest ==
    /\ pc = "farthest"
    /\ selected' \in return_farest_features_from_center(coordinates, k)
    /\ ran' = ran \cup {"distance_from_0"}
    /\ stored' = stored \cup {<<dist_functions[dist_i + 1], "distance_from_0">>}
    /\ pc' = "next_metric"
    /\ UNCHANGED <<nfeat, prc, k, dist_i, coordinates, ranking, labels,
                   features_rank, medoid_indices, error>>
    /\ UNCHANGED <<cd_vars, data>>

\* Line 196: the loop takes the next metric, or ends.  The locals of the
\* iteration that ended are dead on entry to the next one (lines 201-224
\* assign each of them before reading it), so they are emptied here.
MainNextMetric ==
    /\ pc = "next_metric"
    /\ IF dist_i + 1 < Len(dist_functions)
       THEN /\ dist_i' = dist_i + 1
            /\ pc' = "embed"
            /\ coordinates' = << >>
            /\ ranking' = << >>
            /\ selected' = << >>
            /\ labels' = << >>
            /\ features_rank' = << >>
            /\ medoid_indices' = {}
       ELSE /\ pc' = "done"
            /\ UNCHANGED <<dist_i, coordinates, ranking, selected, labels,
                           features_rank, medoid_indices>>
    /\ UNCHANGED <<nfeat, prc, k, stored, ran, error>>
    /\ UNCHANGED <<cd_vars, data>>

MainNext ==
    \/ MainCalcK
    \/ MainAllFeatures
    \/ MainRandom
    \/ MainEmbed
    \/ MainRank
    \/ MainKMeans
    \/ MainKMedoids
    \/ MainFarthest
    \/ MainNextMetric

SpecMain == MainInit /\ [][MainNext]_vars

(***************************************************************************)
(* The three entry points together.                                        *)
(***************************************************************************)
Init == CalcDistInit \/ SelectInit \/ MainInit

Next == CalcDistNext \/ SelectNext \/ MainNext

Spec == Init /\ [][Next]_vars

(***************************************************************************)
(* Claims about calc_dist, checked under SpecCalcDist.                     *)
(***************************************************************************)
NumClasses == Cardinality(Range(classes_in.values))

\* The number of logged invocations for one feature and one unordered pair
\* of labels.
PairCalls(feature, a, b) ==
    Cardinality({i \in 1..Len(calls) :
        /\ calls[i].feature = feature
        /\ {calls[i].label1, calls[i].label2} = {a, b}})

\* C1: calc_dist has no side effect on its inputs: once it has returned, the
\* frame has the columns and values it had at the call and the label series
\* has the index and values it had at the call.
C1_NoSideEffect ==
    cd_pc = "returned" =>
        /\ X_tr.columns = X_in.columns
        /\ X_tr.index = X_in.index
        /\ X_tr.data = X_in.data
        /\ classes.index = classes_in.index
        /\ classes.values = classes_in.values

\* C6: every class-pair matrix is symmetric by construction: for each feature
\* and each unordered pair of distinct classes the distance function is
\* invoked once and both entries of the pair hold the same value.
C6_SymmetricByConstruction ==
    cd_pc = "returned" =>
        LET uniq == unique(classes.values)
        IN  \A i \in 1..Len(distances) : \A a, b \in 1..Len(uniq) :
                a # b =>
                    /\ distances[i][a][b] = distances[i][b][a]
                    /\ PairCalls(features[i], uniq[a], uniq[b]) = 1

\* C7: an unsupported metric name is an error for every input: calc_dist
\* called with a name outside the four supported ones never returns a table.
C7_UnsupportedMetricRaises ==
    dist_func_name \notin SupportedMetrics => cd_pc # "returned"

\* C8: the diagonal of every class-pair matrix is the literal 0 whatever the
\* distance function would return, and the distance function is never
\* invoked for a class paired with itself.
C8_ZeroDiagonal ==
    /\ \A i \in 1..Len(distances) : \A a \in 1..Len(distances[i]) :
           distances[i][a][a] = 0
    /\ \A i \in 1..Len(calls) : calls[i].label1 # calls[i].label2
    /\ cd_pc = "returned" =>
           \A i \in 1..Len(df_dists) : \A a \in 1..NumClasses :
               /\ df_dists[i][(a - 1) * NumClasses + a] = 0
               /\ dist_dict[i][a][a] = 0

\* C8's case: a table was returned for at least two classes, the distance
\* function was invoked, and it would not return 0 for some class paired with
\* itself.
C8_Witness ==
    /\ cd_pc = "returned"
    /\ NumClasses >= 2
    /\ Len(distances) >= 1
    /\ calls # << >>
    /\ \E c \in Range(classes.values) :
           distance_lib(weights, features[1], c, c) # 0

\* The entry the matrix of a feature must hold for classes a and b of
\* classes.unique(): 0 on the diagonal, the library's distance elsewhere.
ExpectedEntry(feature, a, b) ==
    LET uniq == unique(classes_in.values)
    IN  IF a = b THEN 0 ELSE distance_lib(weights, feature, uniq[a], uniq[b])

\* C9: the flattened table is aligned with the features and the per-feature
\* matrices: N rows of C*C columns, row i the row-major flattening of the
\* C x C matrix of the i-th input column, and N matrices in the dictionary,
\* the i-th flattening row-major to row i.
C9_TableAligned ==
    cd_pc = "returned" =>
        /\ Len(df_dists) = Len(X_in.columns)
        /\ Len(dist_dict) = Len(X_in.columns)
        /\ \A i \in 1..Len(df_dists) :
               /\ Len(df_dists[i]) = NumClasses * NumClasses
               /\ Len(dist_dict[i]) = NumClasses
               /\ \A a \in 1..NumClasses :
                      /\ Len(dist_dict[i][a]) = NumClasses
                      /\ \A b \in 1..NumClasses :
                             /\ df_dists[i][(a - 1) * NumClasses + b] =
                                    ExpectedEntry(X_in.columns[i], a, b)
                             /\ dist_dict[i][a][b] =
                                    df_dists[i][(a - 1) * NumClasses + b]

\* C9's case: a table of two features and two or more classes whose first
\* matrix is not symmetric and whose rows differ.
C9_Witness ==
    /\ cd_pc = "returned"
    /\ Len(df_dists) >= 2
    /\ NumClasses >= 2
    /\ df_dists[1][2] # df_dists[1][NumClasses + 1]
    /\ df_dists[1] # df_dists[2]

(***************************************************************************)
(* Claims about the selection strategies, checked under SpecSelect.        *)
(***************************************************************************)
\* Position (1-based) of feature index x in a sequence that holds it.
PosIn(seq, x) == CHOOSE i \in 1..Len(seq) : seq[i] = x

Distinct(seq) == \A i, j \in 1..Len(seq) : i # j => seq[i] # seq[j]

\* The squared Euclidean norm of the point of feature i (0-based).
Norm2(i) ==
    point(coordinates, i)[1] * point(coordinates, i)[1]
        + point(coordinates, i)[2] * point(coordinates, i)[2]

\* C4: k-medoids selection returns exactly the indices of the medoids: every
\* returned index is a medoid's row, so at most k indices are returned.
C4_OnlyMedoidsReturned ==
    (pc = "returned_kmedoids" /\ 1 <= k /\ k < nfeat) =>
        /\ Range(selected) \subseteq medoid_indices
        /\ Len(selected) <= k

\* C5: farthest-from-origin selection returns k distinct indices in 0..N-1,
\* no unselected point has a strictly larger norm than a selected one, and of
\* two points of equal norm at the selection boundary the lower index is the
\* selected one.
C5_FarthestTiesByIndex ==
    (pc = "returned_farthest" /\ 1 <= k /\ k < nfeat) =>
        /\ Len(selected) = k
        /\ Distinct(selected)
        /\ Range(selected) \subseteq 0..(nfeat - 1)
        /\ \A s \in Range(selected) : \A u \in (0..(nfeat - 1)) \ Range(selected) :
               /\ Norm2(u) <= Norm2(s)
               /\ Norm2(u) = Norm2(s) => s < u

\* C10: k-means selection emits at most one feature per cluster in first-axis
\* ranking order: the cluster labels of the returned features are pairwise
\* distinct, each returned feature is the first of its cluster in the
\* ascending order of the first axis, the returned sequence follows that
\* order, and its length is the number of distinct labels present (at most k).
C10_OnePerClusterInRankOrder ==
    pc = "returned_kmeans" =>
        /\ \A i \in 1..(Len(features_rank) - 1) :
               coordinates[1][features_rank[i] + 1]
                   <= coordinates[1][features_rank[i + 1] + 1]
        /\ Range(selected) \subseteq 0..(nfeat - 1)
        /\ \A i, j \in 1..Len(selected) :
               i # j => labels[selected[i] + 1] # labels[selected[j] + 1]
        /\ \A s \in Range(selected) : \A f \in 0..(nfeat - 1) :
               labels[f + 1] = labels[s + 1] =>
                   PosIn(features_rank, s) <= PosIn(features_rank, f)
        /\ \A i, j \in 1..Len(selected) :
               i < j => PosIn(features_rank, selected[i])
                            < PosIn(features_rank, selected[j])
        /\ Len(selected) = Cardinality(Range(labels))
        /\ Len(selected) <= k

\* C10's case: two or more clusters are represented, some cluster holds more
\* than one feature, and the ranking is not the input order.
C10_Witness ==
    /\ pc = "returned_kmeans"
    /\ Len(selected) >= 2
    /\ Len(selected) < nfeat
    /\ \E i \in 1..Len(features_rank) : features_rank[i] # i - 1

(***************************************************************************)
(* Claims about main, checked under SpecMain.                              *)
(***************************************************************************)
\* C2: the pipeline never runs with a degenerate feature count: once k is
\* computed with k <= 0 or k >= N, no selection strategy is executed and no
\* result is stored.
C2_DegenerateKRejected ==
    (pc # "start" /\ (k <= 0 \/ k >= nfeat)) =>
        /\ ran = {}
        /\ stored = {}

\* C3: rank-by-axis selection returns exactly k distinct valid feature
\* indices: for 1 <= k < N the indices it selects are k pairwise distinct
\* values, each in 0..N-1.
C3_RankSelectsValidIndices ==
    (/\ pc = "kmeans" \/ (pc = "crashed" /\ error = "IndexError")
     /\ 1 <= k
     /\ k < nfeat) =>
        /\ Len(selected) = k
        /\ Distinct(selected)
        /\ Range(selected) \subseteq 0..(nfeat - 1)

====
